---- MODULE Spec2Model ----
(***************************************************************************)
(* Model of the read-only admission gate (is_read_only_query) and of the   *)
(* execution wrapper (ask_db) of src/main.py.                              *)
(*                                                                         *)
(* Texts are TLA+ strings; a character is a string of length one.  The     *)
(* regular expressions of the source are modelled by operators that        *)
(* compute what Python's re module computes for them.                      *)
(***************************************************************************)
EXTENDS Integers, Sequences, FiniteSets, TLC

VARIABLES
    sql,          \* is_read_only_query: the parameter sql
    pc,           \* is_read_only_query: position in the function body
    sql_clean,    \* is_read_only_query: local sql_clean (after line 27)
    statements,   \* is_read_only_query: local statements (line 30)
    idx,          \* is_read_only_query: index of the statement the loop is at
    result,       \* is_read_only_query: the returned value (valid at pc = "done")
    cpc,          \* ask_db: position of each call
    arg,          \* ask_db: the argument each call was given
    call_sql,     \* ask_db: local sql of each call after line 208
    conn,         \* ask_db: state of the connection of each call
    runs,         \* ask_db: number of times the engine executed the call's text
    rows,         \* ask_db: local result of each call (lines 217-218)
    fault,        \* ask_db: the exception in flight or caught, "" when none
    admitted,     \* ask_db: whether line 210 admitted the call's text
    ret           \* ask_db: what each call returned to its caller

cvars == <<sql, pc, sql_clean, statements, idx, result>>
avars == <<cpc, arg, call_sql, conn, runs, rows, fault, admitted, ret>>
vars == <<sql, pc, sql_clean, statements, idx, result,
          cpc, arg, call_sql, conn, runs, rows, fault, admitted, ret>>

-----------------------------------------------------------------------------
(* Bounds *)

MaxFrags == 4
NumCalls == 2

-----------------------------------------------------------------------------
(* Characters and strings *)

Min(S) == CHOOSE x \in S : \A y \in S : x <= y
Max(S) == CHOOSE x \in S : \A y \in S : x >= y

Ch(s, i) == SubSeq(s, i, i)

\* the literal k stands in s at position i
At(s, i, k) ==
    /\ i >= 1
    /\ i + Len(k) - 1 <= Len(s)
    /\ SubSeq(s, i, i + Len(k) - 1) = k

LowerCase == <<"a","b","c","d","e","f","g","h","i","j","k","l","m",
               "n","o","p","q","r","s","t","u","v","w","x","y","z">>
UpperCase == <<"A","B","C","D","E","F","G","H","I","J","K","L","M",
               "N","O","P","Q","R","S","T","U","V","W","X","Y","Z">>
Digits == {"0","1","2","3","4","5","6","7","8","9"}

\* str.upper() on one character
UpperOf == [i \in 1..26 |-> UpperCase[i]]
LowerIndex(c) == {i \in 1..26 : LowerCase[i] = c}
UpperChar(c) ==
    IF LowerIndex(c) # {} THEN UpperOf[CHOOSE i \in LowerIndex(c) : TRUE] ELSE c

RECURSIVE UpperFrom(_, _)
UpperFrom(s, i) ==
    IF i > Len(s) THEN "" ELSE UpperChar(Ch(s, i)) \o UpperFrom(s, i + 1)

\* str.upper()
Upper(s) == UpperFrom(s, 1)

\* the characters str.strip() removes and the regex class \s matches
WhiteSpace == {" ", "\t", "\n", "\r", "\f"}

\* the regex class \w
IsWordChar(c) ==
    \/ \E i \in 1..26 : LowerCase[i] = c \/ UpperCase[i] = c
    \/ c \in Digits
    \/ c = "_"

\* the regex assertion \b at position p (between characters p-1 and p)
WordBoundary(s, p) ==
    (p > 1 /\ p - 1 <= Len(s) /\ IsWordChar(Ch(s, p - 1)))
        # (p >= 1 /\ p <= Len(s) /\ IsWordChar(Ch(s, p)))

\* str.strip()
Strip(s) ==
    LET keep == {i \in 1..Len(s) : Ch(s, i) \notin WhiteSpace}
    IN  IF keep = {} THEN "" ELSE SubSeq(s, Min(keep), Max(keep))

\* str.split(sep) for a separator of one character
RECURSIVE Split(_, _)
Split(s, sep) ==
    LET hits == {p \in 1..Len(s) : Ch(s, p) = sep}
    IN  IF hits = {} THEN <<s>>
        ELSE <<SubSeq(s, 1, Min(hits) - 1)>>
                 \o Split(SubSeq(s, Min(hits) + 1, Len(s)), sep)

\* no newline among the characters a..b of s: what the regex .* can cross
NoNewline(s, a, b) == \A i \in a..b : Ch(s, i) # "\n"

\* only whitespace among the characters a..b of s: what \s* can cross
AllSpace(s, a, b) == \A i \in a..b : Ch(s, i) \in WhiteSpace

\* the regex assertion $ without re.MULTILINE at position q
EndOfText(s, q) == q = Len(s) + 1 \/ (q = Len(s) /\ Ch(s, q) = "\n")

-----------------------------------------------------------------------------
(* is_read_only_query: comment removal, lines 25-27 *)

\* first position at or after j where $ matches under re.MULTILINE
LineEnd(s, j) == Min({p \in j..(Len(s) + 1) : p = Len(s) + 1 \/ Ch(s, p) = "\n"})

\* re.sub(r'--.*?$', '', s, flags=re.MULTILINE), scanning from i
RECURSIVE SubLineComments(_, _)
SubLineComments(s, i) ==
    IF i > Len(s) THEN ""
    ELSE IF At(s, i, "--") THEN SubLineComments(s, LineEnd(s, i + 2))
    ELSE Ch(s, i) \o SubLineComments(s, i + 1)

\* positions at or after j where a block comment can close
Closers(s, j) == {p \in j..Len(s) : At(s, p, "*/")}

\* re.sub(r'/\*.*?\*/', '', s, flags=re.DOTALL), scanning from i
RECURSIVE SubBlockComments(_, _)
SubBlockComments(s, i) ==
    IF i > Len(s) THEN ""
    ELSE IF At(s, i, "/*") /\ Closers(s, i + 2) # {}
         THEN SubBlockComments(s, Min(Closers(s, i + 2)) + 2)
    ELSE Ch(s, i) \o SubBlockComments(s, i + 1)

\* lines 25-26
RemoveComments(s) == SubBlockComments(SubLineComments(s, 1), 1)

\* lines 25-27
Clean(s) == Strip(RemoveComments(s))

-----------------------------------------------------------------------------
(* is_read_only_query: statements, line 30 *)

NonEmpty(s) == s # ""

SplitStatements(clean) ==
    LET parts == Split(clean, ";")
    IN  SelectSeq([i \in 1..Len(parts) |-> Strip(parts[i])], NonEmpty)

-----------------------------------------------------------------------------
(* is_read_only_query: the patterns, lines 37-53.  re.IGNORECASE compares *)
(* the text and the literal without regard to letter case.                *)

AtIgnoreCase(s, i, k) ==
    /\ i >= 1
    /\ i + Len(k) - 1 <= Len(s)
    /\ UpperChar(Ch(s, i)) = UpperChar(Ch(k, 1))
    /\ Upper(SubSeq(s, i, i + Len(k) - 1)) = Upper(k)

\* re.search(r'\bKW\b', s, re.IGNORECASE)
SearchSubstring(s, kw) == \E p \in 1..Len(s) : AtIgnoreCase(s, p, kw)
SearchWord(s, kw) ==
    \E p \in 1..Len(s) :
        /\ AtIgnoreCase(s, p, kw)
        /\ WordBoundary(s, p)
        /\ WordBoundary(s, p + Len(kw))

\* the rest of r'PRAGMA\b.*=\s*VALUE$' once PRAGMA matched at p
PragmaTail(s, p, value) ==
    /\ WordBoundary(s, p + 6)
    /\ \E e \in (p + 6)..Len(s) :
          /\ Ch(s, e) = "="
          /\ NoNewline(s, p + 6, e - 1)
          /\ \E v \in (e + 1)..Len(s) :
                /\ AllSpace(s, e + 1, v - 1)
                /\ AtIgnoreCase(s, v, value)
                /\ EndOfText(s, v + Len(value))

\* re.search(r'\bPRAGMA\b.*=\s*on$', s, re.IGNORECASE)
SearchPragmaOn(s) ==
    \E p \in 1..Len(s) :
        AtIgnoreCase(s, p, "PRAGMA") /\ WordBoundary(s, p) /\ PragmaTail(s, p, "on")

\* re.search(r'^PRAGMA\b.*=\s*off$', s, re.IGNORECASE)
MatchPragmaOff(s) == AtIgnoreCase(s, 1, "PRAGMA") /\ PragmaTail(s, 1, "off")

\* re.search(r'^KW\b', s, re.IGNORECASE)
MatchPrefix(s, kw) == AtIgnoreCase(s, 1, kw) /\ WordBoundary(s, 1 + Len(kw))

\* re.search(r'^WITH\b.*SELECT\b', s, re.IGNORECASE)
MatchWithSelect(s) ==
    /\ MatchPrefix(s, "WITH")
    /\ \E q \in 5..Len(s) :
          /\ AtIgnoreCase(s, q, "SELECT")
          /\ NoNewline(s, 5, q - 1)
          /\ WordBoundary(s, q + 6)

\* the keywords of forbidden_patterns, lines 48-51
ForbiddenKeywords ==
    {"INSERT", "UPDATE", "DELETE", "DROP", "CREATE", "ALTER", "TRUNCATE",
     "REPLACE", "GRANT", "REVOKE", "SET", "RESET", "CALL", "EXECUTE"}

\* the keywords of read_only_patterns that need nothing after them
AllowedPrefixes == {"SELECT", "EXPLAIN", "DESCRIBE", "SHOW"}

\* lines 62-64 on statement_upper
Forbidden(statement_upper) ==
    \/ \E kw \in ForbiddenKeywords : SearchWord(statement_upper, kw)
    \/ SearchPragmaOn(statement_upper)

\* lines 67-71 on statement_upper
Allowed(statement_upper) ==
    \/ \E kw \in AllowedPrefixes : MatchPrefix(statement_upper, kw)
    \/ MatchWithSelect(statement_upper)
    \/ MatchPragmaOff(statement_upper)

\* one turn of the loop of lines 55-74: TRUE when the statement passes
StatementPasses(statement) ==
    LET statement_upper == Upper(statement)
    IN  ~Forbidden(statement_upper) /\ Allowed(statement_upper)

\* the function as a whole, lines 17-76
is_read_only_query(s) ==
    LET stmts == SplitStatements(Clean(s))
    IN  \A i \in 1..Len(stmts) : StatementPasses(stmts[i])

-----------------------------------------------------------------------------
(* The texts is_read_only_query is given: a head followed by at most      *)
(* MaxFrags fragments, head and fragments drawn from one family.           *)

RECURSIVE Concat(_)
Concat(seq) == IF seq = <<>> THEN "" ELSE Head(seq) \o Concat(Tail(seq))

SeqsUpTo(A, n) == UNION {[1..k -> A] : k \in 0..n}

Families ==
    { [heads |-> {"", "SELECT "},
       body  |-> {"/*", "*/", "-", "DROP", "x", "\n"}],
      [heads |-> {"SELECT ", "WITH x ", "show "},
       body  |-> {"SELECT", "\n", ";", "update", "_", " "}],
      [heads |-> {"PRAGMA x", "select pragma "},
       body  |-> {"=", " ", "on", "off", "\n", "set_"}],
      [heads |-> {""},
       body  |-> {"/*", "*/", ";", "--", "\n", "a"}] }

Inputs ==
    UNION { {h \o Concat(b) : h \in f.heads, b \in SeqsUpTo(f.body, MaxFrags)}
            : f \in Families }

-----------------------------------------------------------------------------
(* ask_db: the calls and what they start from *)

Calls == 1..NumCalls

NoReturn == [pending |-> TRUE]

AIdle ==
    /\ cpc = [c \in Calls |-> "idle"]
    /\ arg = [c \in Calls |-> [type |-> "str", val |-> ""]]
    /\ call_sql = [c \in Calls |-> ""]
    /\ conn = [c \in Calls |-> "none"]
    /\ runs = [c \in Calls |-> 0]
    /\ rows = [c \in Calls |-> <<>>]
    /\ fault = [c \in Calls |-> ""]
    /\ admitted = [c \in Calls |-> FALSE]
    /\ ret = [c \in Calls |-> NoReturn]

-----------------------------------------------------------------------------
(* is_read_only_query as a state machine *)

Init ==
    /\ sql \in Inputs
    /\ pc = "clean"
    /\ sql_clean = ""
    /\ statements = <<>>
    /\ idx = 0
    /\ result = FALSE
    /\ AIdle

\* lines 25-27
CleanStep ==
    /\ pc = "clean"
    /\ sql_clean' = Clean(sql)
    /\ pc' = "split"
    /\ UNCHANGED <<sql, statements, idx, result>>
    /\ UNCHANGED avars

\* lines 30-34
SplitStep ==
    /\ pc = "split"
    /\ statements' = SplitStatements(sql_clean)
    /\ IF statements' = <<>>
       THEN /\ result' = TRUE
            /\ pc' = "done"
            /\ idx' = idx
       ELSE /\ result' = result
            /\ pc' = "loop"
            /\ idx' = 1
    /\ UNCHANGED <<sql, sql_clean>>
    /\ UNCHANGED avars

\* lines 55-74, one statement that passes; line 76 after the last one
PassStep ==
    /\ pc = "loop"
    /\ StatementPasses(statements[idx])
    /\ IF idx = Len(statements)
       THEN /\ result' = TRUE
            /\ pc' = "done"
            /\ idx' = idx
       ELSE /\ result' = result
            /\ pc' = "loop"
            /\ idx' = idx + 1
    /\ UNCHANGED <<sql, sql_clean, statements>>
    /\ UNCHANGED avars

\* lines 62-64 and 73-74: the statement is refused and the function returns
RejectStep ==
    /\ pc = "loop"
    /\ ~StatementPasses(statements[idx])
    /\ result' = FALSE
    /\ pc' = "done"
    /\ UNCHANGED <<sql, sql_clean, statements, idx>>
    /\ UNCHANGED avars

Next == CleanStep \/ SplitStep \/ PassStep \/ RejectStep

Spec == Init /\ [][Next]_vars

\* the machine returns what the function computes
ResultIsFunction == pc = "done" => result = is_read_only_query(sql)

-----------------------------------------------------------------------------
(* What the properties speak of *)

Returned == pc = "done"

\* positions of s inside a line comment: from a "--" up to the end of its line
LineCommentIdx(s) ==
    {p \in 1..Len(s) : \E a \in 1..p : At(s, a, "--") /\ NoNewline(s, a, p)}

\* s with the characters at the positions gone replaced by blanks
RECURSIVE BlankFrom(_, _, _)
BlankFrom(s, gone, i) ==
    IF i > Len(s) THEN ""
    ELSE (IF i \in gone THEN " " ELSE Ch(s, i)) \o BlankFrom(s, gone, i + 1)

\* positions of s inside a block comment, scanning from i: from a "/*" to the
\* nearest "*/" after it
RECURSIVE BlockCommentIdx(_, _)
BlockCommentIdx(s, i) ==
    IF i > Len(s) THEN {}
    ELSE IF At(s, i, "/*") /\ Closers(s, i + 2) # {}
         THEN (i..(Min(Closers(s, i + 2)) + 1))
                  \cup BlockCommentIdx(s, Min(Closers(s, i + 2)) + 2)
    ELSE BlockCommentIdx(s, i + 1)

\* positions of s inside a comment that lines 25-26 strip
StrippedIdx(s) ==
    LET line == LineCommentIdx(s)
    IN  line \cup BlockCommentIdx(BlankFrom(s, line, 1), 1)

RECURSIVE KeepFrom(_, _, _)
KeepFrom(s, gone, i) ==
    IF i > Len(s) THEN ""
    ELSE (IF i \in gone THEN "" ELSE Ch(s, i)) \o KeepFrom(s, gone, i + 1)

\* the stripped positions are those lines 25-26 remove
StrippedIdxIsRemoval ==
    KeepFrom(sql, StrippedIdx(sql), 1) = RemoveComments(sql)

\* a forbidden keyword stands in s as a whole word, outside every comment
KeywordOutsideComments(s) ==
    \E kw \in ForbiddenKeywords : \E p \in 1..Len(s) :
        /\ AtIgnoreCase(s, p, kw)
        /\ WordBoundary(s, p)
        /\ WordBoundary(s, p + Len(kw))
        /\ (p..(p + Len(kw) - 1)) \cap StrippedIdx(s) = {}

\* s is made of whitespace, line comments and block comments only
RECURSIVE OnlyCommentsFrom(_, _)
OnlyCommentsFrom(s, i) ==
    IF i > Len(s) THEN TRUE
    ELSE IF Ch(s, i) \in WhiteSpace THEN OnlyCommentsFrom(s, i + 1)
    ELSE IF At(s, i, "--") THEN OnlyCommentsFrom(s, LineEnd(s, i + 2))
    ELSE IF At(s, i, "/*") /\ Closers(s, i + 2) # {}
         THEN OnlyCommentsFrom(s, Min(Closers(s, i + 2)) + 2)
    ELSE FALSE

OnlyComments(s) == OnlyCommentsFrom(s, 1)

\* no forbidden keyword stands in s as a whole word
NoKeywordWord(s) ==
    \A kw \in ForbiddenKeywords : \A p \in 1..Len(s) :
        ~(AtIgnoreCase(s, p, kw) /\ WordBoundary(s, p) /\ WordBoundary(s, p + Len(kw)))

\* the word kw stands in s at its start, after optional whitespace
BeginsWith(s, kw) ==
    LET t == Strip(s)
    IN  AtIgnoreCase(t, 1, kw) /\ WordBoundary(t, 1 + Len(kw))

\* s begins with WITH and the word SELECT stands somewhere later, on any line
WithThenSelect(s) ==
    LET t == Strip(s)
    IN  /\ BeginsWith(s, "WITH")
        /\ \E q \in 5..Len(t) :
              AtIgnoreCase(t, q, "SELECT") /\ WordBoundary(t, q) /\ WordBoundary(t, q + 6)

BeginsReadOnly(s) ==
    \/ \E kw \in AllowedPrefixes : BeginsWith(s, kw)
    \/ WithThenSelect(s)

\* a forbidden keyword stands in s as a part of a longer identifier
KeywordInsideIdentifier(s) ==
    \E kw \in ForbiddenKeywords : \E p \in 1..Len(s) :
        /\ AtIgnoreCase(s, p, kw)
        /\ \/ (p > 1 /\ IsWordChar(Ch(s, p - 1)))
           \/ (p + Len(kw) <= Len(s) /\ IsWordChar(Ch(s, p + Len(kw))))

\* s is one statement without comments
PlainStatement(s) ==
    \A p \in 1..Len(s) : Ch(s, p) # ";" /\ ~At(s, p, "--") /\ ~At(s, p, "/*")

SelectWithKeywordIdentifier(s) ==
    /\ BeginsWith(s, "SELECT")
    /\ KeywordInsideIdentifier(s)
    /\ NoKeywordWord(s)

-----------------------------------------------------------------------------
(* Properties of is_read_only_query *)

\* C1: a text that holds a forbidden keyword as a whole word outside every
\* comment is rejected, wherever the keyword stands and whatever the text
\* starts with, also when the keyword touches a comment.
C1_KeywordRejected ==
    (Returned /\ KeywordOutsideComments(sql)) => result = FALSE

\* C5: a text made of whitespace, line comments and block comments only is
\* allowed.
C5_OnlyCommentsAllowed ==
    (Returned /\ OnlyComments(sql)) => result = TRUE

\* C6: a text that begins with SELECT, WITH ... SELECT (on one or several
\* lines), EXPLAIN, DESCRIBE or SHOW and holds no forbidden keyword as a
\* whole word is allowed.  Stated here for the texts that are one statement
\* without comments and without a PRAGMA ... = on directive, which are among
\* the texts the claim covers.
C6_ReadOnlyPrefixAllowed ==
    (/\ Returned
     /\ BeginsReadOnly(sql)
     /\ NoKeywordWord(sql)
     /\ PlainStatement(sql)
     /\ ~SearchPragmaOn(Upper(Strip(sql))))
        => result = TRUE

\* C7: the verdict of a text with its comments removed is the verdict of
\* the text.
C7_StripKeepsVerdict ==
    Returned => is_read_only_query(RemoveComments(sql)) = result

\* C8: a text is allowed exactly when each of its statements, submitted
\* alone, is allowed.
C8_AllowedIffEachStatement ==
    Returned =>
        (result = TRUE <=>
            \A i \in 1..Len(statements) : is_read_only_query(statements[i]))

\* C10 as stated: a SELECT that names an identifier of which a forbidden
\* keyword is only a part, and holds no forbidden keyword as a whole word,
\* is rejected.
C10_IdentifierRejected ==
    (Returned /\ SelectWithKeywordIdentifier(sql)) => result = FALSE

\* C10 as amended: a single SELECT statement without comments that names an
\* identifier of which a forbidden keyword is only a part, and holds neither
\* a forbidden keyword as a whole word nor a PRAGMA ... = on directive, is
\* allowed.
C10_IdentifierAllowed ==
    (/\ Returned
     /\ SelectWithKeywordIdentifier(sql)
     /\ PlainStatement(sql)
     /\ ~SearchPragmaOn(Upper(Strip(sql))))
        => result = TRUE

\* a SELECT naming such an identifier has been classified and allowed
C10_Witness ==
    /\ Returned
    /\ SelectWithKeywordIdentifier(sql)
    /\ PlainStatement(sql)
    /\ ~SearchPragmaOn(Upper(Strip(sql)))
    /\ result = TRUE

-----------------------------------------------------------------------------
(* ask_db, lines 193-225 *)

\* the arguments the calls are given; the last one is not a string
AskArgs ==
    { [type |-> "str", val |-> "  SELECT 1 AS x\n"],
      [type |-> "str", val |-> "DROP TABLE users"],
      [type |-> "str", val |-> " select 1; delete from t "],
      [type |-> "NoneType", val |-> ""] }

\* line 212
PolicyMessage ==
    "Only read-only queries are allowed. Permitted operations: SELECT, WITH...SELECT, EXPLAIN, DESCRIBE, SHOW"

\* line 220
ExecutionMessage(e) == "SQL execution failed: " \o e

\* what the engine can raise at each step of lines 216-218
ConnectFaults == {"connection refused"}
ExecuteFaults == {"relation does not exist"}
FetchFaults == {"connection lost"}
ConvertFaults == {"row has no _mapping"}

\* the rows the engine can yield: a row is a sequence of <<column, value>>
ResultSets == { <<>>, << <<(<<"x", 1>>)>> >>, << <<(<<"x", 1>>), (<<"x", 2>>)>>, <<(<<"y", 3>>)>> >> }

\* dict(row._mapping): column name to value, a later column of the same name
\* replacing an earlier one
ToDict(row) ==
    [k \in {row[i][1] : i \in DOMAIN row} |->
        row[Max({i \in DOMAIN row : row[i][1] = k})][2]]

AInit ==
    /\ sql = ""
    /\ pc = "idle"
    /\ sql_clean = ""
    /\ statements = <<>>
    /\ idx = 0
    /\ result = FALSE
    /\ AIdle

\* the caller invokes ask_db(a)
Call(c) ==
    /\ cpc[c] = "idle"
    /\ \E a \in AskArgs : arg' = [arg EXCEPT ![c] = a]
    /\ cpc' = [cpc EXCEPT ![c] = "strip"]
    /\ UNCHANGED <<call_sql, conn, runs, rows, fault, admitted, ret>>
    /\ UNCHANGED cvars

\* line 208: sql = sql.strip(), outside the try statement
TrimStep(c) ==
    /\ cpc[c] = "strip"
    /\ IF arg[c].type = "str"
       THEN /\ call_sql' = [call_sql EXCEPT ![c] = Strip(arg[c].val)]
            /\ cpc' = [cpc EXCEPT ![c] = "validate"]
            /\ fault' = fault
       ELSE /\ fault' = [fault EXCEPT ![c] = "AttributeError"]
            /\ cpc' = [cpc EXCEPT ![c] = "raised"]
            /\ call_sql' = call_sql
    /\ UNCHANGED <<arg, conn, runs, rows, admitted, ret>>
    /\ UNCHANGED cvars

\* lines 210-214 with the gate left out
ValidateNoGate(c) ==
    /\ cpc[c] = "validate"
    /\ admitted' = [admitted EXCEPT ![c] = TRUE]
    /\ cpc' = [cpc EXCEPT ![c] = "connect"]
    /\ ret' = ret
    /\ UNCHANGED <<arg, call_sql, conn, runs, rows, fault>>
    /\ UNCHANGED cvars

\* lines 210-214
Validate(c) ==
    /\ cpc[c] = "validate"
    /\ IF ~is_read_only_query(call_sql[c])
       THEN /\ ret' = [ret EXCEPT ![c] =
                          [error |-> PolicyMessage, sql |-> call_sql[c]]]
            /\ cpc' = [cpc EXCEPT ![c] = "done"]
            /\ admitted' = admitted
       ELSE /\ admitted' = [admitted EXCEPT ![c] = TRUE]
            /\ cpc' = [cpc EXCEPT ![c] = "connect"]
            /\ ret' = ret
    /\ UNCHANGED <<arg, call_sql, conn, runs, rows, fault>>
    /\ UNCHANGED cvars

\* line 216: engine.connect()
Connect(c) ==
    /\ cpc[c] = "connect"
    /\ \/ /\ conn' = [conn EXCEPT ![c] = "open"]
          /\ cpc' = [cpc EXCEPT ![c] = "execute"]
          /\ fault' = fault
       \/ /\ \E e \in ConnectFaults : fault' = [fault EXCEPT ![c] = e]
          /\ cpc' = [cpc EXCEPT ![c] = "except"]
          /\ conn' = conn
    /\ UNCHANGED <<arg, call_sql, runs, rows, admitted, ret>>
    /\ UNCHANGED cvars

\* line 217: conn.execute(text(sql))
Execute(c) ==
    /\ cpc[c] = "execute"
    /\ runs' = [runs EXCEPT ![c] = @ + 1]
    /\ \/ /\ cpc' = [cpc EXCEPT ![c] = "fetch"]
          /\ fault' = fault
       \/ /\ \E e \in ExecuteFaults : fault' = [fault EXCEPT ![c] = e]
          /\ cpc' = [cpc EXCEPT ![c] = "unwind"]
    /\ UNCHANGED <<arg, call_sql, conn, rows, admitted, ret>>
    /\ UNCHANGED cvars

\* line 217: .fetchall()
Fetch(c) ==
    /\ cpc[c] = "fetch"
    /\ \/ /\ \E rs \in ResultSets : rows' = [rows EXCEPT ![c] = rs]
          /\ cpc' = [cpc EXCEPT ![c] = "convert"]
          /\ fault' = fault
       \/ /\ \E e \in FetchFaults : fault' = [fault EXCEPT ![c] = e]
          /\ cpc' = [cpc EXCEPT ![c] = "unwind"]
          /\ rows' = rows
    /\ UNCHANGED <<arg, call_sql, conn, runs, admitted, ret>>
    /\ UNCHANGED cvars

\* line 218: [dict(row._mapping) for row in result]
Convert(c) ==
    /\ cpc[c] = "convert"
    /\ \/ /\ rows' = [rows EXCEPT ![c] = [i \in DOMAIN @ |-> ToDict(@[i])]]
          /\ cpc' = [cpc EXCEPT ![c] = "exit"]
          /\ fault' = fault
       \/ /\ \E e \in ConvertFaults : fault' = [fault EXCEPT ![c] = e]
          /\ cpc' = [cpc EXCEPT ![c] = "unwind"]
          /\ rows' = rows
    /\ UNCHANGED <<arg, call_sql, conn, runs, admitted, ret>>
    /\ UNCHANGED cvars

\* line 216: the with statement is left normally and closes the connection
ExitWith(c) ==
    /\ cpc[c] = "exit"
    /\ conn' = [conn EXCEPT ![c] = "closed"]
    /\ cpc' = [cpc EXCEPT ![c] = "return"]
    /\ UNCHANGED <<arg, call_sql, runs, rows, fault, admitted, ret>>
    /\ UNCHANGED cvars

\* the with statement left by an exception without closing the connection
UnwindLeak(c) ==
    /\ cpc[c] = "unwind"
    /\ cpc' = [cpc EXCEPT ![c] = "except"]
    /\ UNCHANGED <<arg, call_sql, conn, runs, rows, fault, admitted, ret>>
    /\ UNCHANGED cvars

\* line 216: the with statement is left by an exception and closes the
\* connection
Unwind(c) ==
    /\ cpc[c] = "unwind"
    /\ conn' = [conn EXCEPT ![c] = "closed"]
    /\ cpc' = [cpc EXCEPT ![c] = "except"]
    /\ UNCHANGED <<arg, call_sql, runs, rows, fault, admitted, ret>>
    /\ UNCHANGED cvars

\* an except clause that lets the exception go on to the caller
ExceptReraise(c) ==
    /\ cpc[c] = "except"
    /\ cpc' = [cpc EXCEPT ![c] = "raised"]
    /\ UNCHANGED <<arg, call_sql, conn, runs, rows, fault, admitted, ret>>
    /\ UNCHANGED cvars

\* lines 219-220
Except(c) ==
    /\ cpc[c] = "except"
    /\ ret' = [ret EXCEPT ![c] =
                  [error |-> ExecutionMessage(fault[c]), sql |-> call_sql[c]]]
    /\ cpc' = [cpc EXCEPT ![c] = "done"]
    /\ UNCHANGED <<arg, call_sql, conn, runs, rows, fault, admitted>>
    /\ UNCHANGED cvars

\* lines 222-225
Return(c) ==
    /\ cpc[c] = "return"
    /\ ret' = [ret EXCEPT ![c] = [sql |-> call_sql[c], result |-> rows[c]]]
    /\ cpc' = [cpc EXCEPT ![c] = "done"]
    /\ UNCHANGED <<arg, call_sql, conn, runs, rows, fault, admitted>>
    /\ UNCHANGED cvars

ANext ==
    \E c \in Calls :
        \/ Call(c)
        \/ TrimStep(c)
        \/ Validate(c)
        \/ Connect(c)
        \/ Execute(c)
        \/ Fetch(c)
        \/ Convert(c)
        \/ ExitWith(c)
        \/ Unwind(c)
        \/ Except(c)
        \/ Return(c)

SpecAsk == AInit /\ [][ANext]_vars

-----------------------------------------------------------------------------
(* Properties of ask_db *)

\* the call has passed line 210
Validated(c) == cpc[c] \notin {"idle", "strip", "validate", "raised"}

\* C2: a call whose trimmed text the classifier rejects returns the policy
\* payload with the trimmed text, acquires no connection and runs no query;
\* a call that holds or held a connection had its text admitted before.
C2_RejectedNeverConnects ==
    \A c \in Calls :
        /\ (Validated(c) /\ ~is_read_only_query(call_sql[c])) =>
              /\ cpc[c] = "done"
              /\ conn[c] = "none"
              /\ runs[c] = 0
              /\ ret[c] = [error |-> PolicyMessage, sql |-> Strip(arg[c].val)]
        /\ (conn[c] # "none" \/ runs[c] > 0) =>
              (admitted[c] /\ is_read_only_query(call_sql[c]))

\* a rejected call has returned while another call holds a connection
C2_Witness ==
    \E c, d \in Calls :
        /\ cpc[c] = "done"
        /\ ret[c] = [error |-> PolicyMessage, sql |-> "DROP TABLE users"]
        /\ conn[c] = "none"
        /\ conn[d] = "open"

\* C3: an admitted call during which the engine raises a fault at connect,
\* execute, fetch or conversion returns {error: message embedding the
\* fault, sql: trimmed text}; nothing reaches the caller as an exception,
\* the query is run at most once and the payload has no result key.
C3_FaultBecomesPayload ==
    \A c \in Calls :
        (admitted[c] /\ fault[c] # "") =>
            /\ cpc[c] \in {"unwind", "except", "done"}
            /\ runs[c] <= 1
            /\ cpc[c] = "done" =>
                  /\ ret[c] = [error |-> ExecutionMessage(fault[c]),
                               sql |-> Strip(arg[c].val)]
                  /\ "result" \notin DOMAIN ret[c]

\* a call has returned the payload of a fault raised by the row conversion
C3_Witness ==
    \E c \in Calls :
        /\ cpc[c] = "done"
        /\ admitted[c]
        /\ fault[c] \in ConvertFaults
        /\ runs[c] = 1
        /\ ret[c] = [error |-> "SQL execution failed: row has no _mapping",
                     sql |-> "SELECT 1 AS x"]

\* C4: a call that has returned holds no open connection, on every path
\* and whatever the other calls are doing.
C4_ReturnedReleased ==
    \A c \in Calls : cpc[c] = "done" => conn[c] # "open"

\* a call has returned after a fault at execute with its connection closed
\* while another call is between connect and return
C4_Witness ==
    \E c, d \in Calls :
        /\ cpc[c] = "done"
        /\ fault[c] \in ExecuteFaults
        /\ conn[c] = "closed"
        /\ conn[d] = "open"

\* C9: no call lets a fault reach its caller: every call that ends has
\* returned {sql, result} or {sql, error}.
C9_NothingPropagates ==
    \A c \in Calls :
        /\ cpc[c] # "raised"
        /\ cpc[c] = "done" =>
              (DOMAIN ret[c] = {"sql", "result"} \/ DOMAIN ret[c] = {"sql", "error"})

====
